---- MODULE Spec2Model ----
(***************************************************************************)
(* quick_pipreqs: depth-limited discovery of requirements.txt directories, *)
(* the bounded worker pool that regenerates each of them with pipreqs, and *)
(* the backup / change-detection steps of updateRequirements.              *)
(*                                                                         *)
(* Paths are sequences of entry names (the root is <<>>); names are        *)
(* strings, and Chars gives the bytes of a name where the code looks at    *)
(* them (separator counting, case folding, sorting).  The file system is   *)
(* case-sensitive.                                                         *)
(***************************************************************************)
EXTENDS Integers, Sequences, FiniteSets, TLC

VARIABLES
    nargs,          \* flag.NArg()
    showVersion,    \* --version
    dryRun,         \* --dry-run
    maxDepth,       \* --max-depth
    requested,      \* --concurrency as given on the command line
    concurrency,    \* main's concurrency variable (clamped in place)
    pipreqsInPath,  \* whether the pipreqs executable resolves on PATH
    rootKind,       \* what the root argument names: "dir", "file", "missing"
    unreadable,     \* directories whose listing fails (permission denied)
    files,          \* directory -> file name -> content, or Absent
    files0,         \* the file system as it was when the process started
    pc,             \* position of main
    exitCode,       \* process exit status once main has ended, else NoExit
    versionRun,     \* whether `pipreqs --version` has been executed
    scanned,        \* whether findRequirementsDirs has been called
    visited,        \* entries the WalkDir callback has been invoked on
    scanOut,        \* what findRequirementsDirs returned (before fallback/sort)
    reqDirs,        \* main's reqDirs
    idx,            \* index of the next directory the dispatch loop launches
    sem,            \* tokens held in the sem channel
    wg,             \* WaitGroup counter
    cancelled,      \* whether cancel() has been called
    wpc,            \* directory -> position of its worker goroutine
    wloc,           \* directory -> updateRequirements' preExists / preHash
    cmdRuns,        \* directory -> number of `pipreqs .` executions there
    cmdWrote,       \* directory -> what the last `pipreqs .` there wrote
    cmdOut,         \* directory -> combined output of the last `pipreqs .` there
    calls,          \* directory -> number of updateRequirements calls for it
    messages,       \* what main wrote to stderr and through the logger
    result,         \* directory -> what updateRequirements returned
    updatedCount,   \* main's atomic updatedCount
    errorCount,     \* main's atomic errorCount
    summary         \* the final "processed/updated/errors" line

vars == <<nargs, showVersion, dryRun, maxDepth, requested, concurrency,
          pipreqsInPath,
          rootKind, unreadable, files, files0, pc, exitCode, versionRun,
          scanned, visited, scanOut, reqDirs, idx, sem, wg, cancelled, wpc,
          wloc, cmdRuns, cmdWrote, cmdOut, calls, messages, result,
          updatedCount, errorCount, summary>>

---------------------------------------------------------------------------
(* Bounds of the explored state space *)

\* file contents are 1..MaxContent
MaxContent == 2
\* --max-depth ranges over -1..MaxDepthArg when the scanner is explored alone
MaxDepthArg == 3
\* the largest --concurrency requested
MaxConcArg == 13
\* number of sub-directories of the wide tree
MaxWide == 13

(* Program constants *)

\* os.PathSeparator
Sep == 47
\* the hard cap on --concurrency
MaxConcurrency == 12

NoExit == -1
Absent == 0
Contents == 1..MaxContent

ReqName == "requirements.txt"
ReqUpper == "Requirements.TXT"
BakName == "requirements.txt.bak"
OtherName == "main.py"
FileNames == {ReqName, ReqUpper, BakName, OtherName}

WideNames == <<"a", "b", "c", "d", "e", "f", "g", "h", "i", "j", "k", "l",
               "m", "n", "o", "p">>

\* The bytes of a name.
Chars(name) ==
    CASE name = ReqName ->
           <<114,101,113,117,105,114,101,109,101,110,116,115,46,116,120,116>>
      [] name = ReqUpper ->
           <<82,101,113,117,105,114,101,109,101,110,116,115,46,84,88,84>>
      [] name = BakName ->
           <<114,101,113,117,105,114,101,109,101,110,116,115,46,116,120,116,
             46,98,97,107>>
      [] name = OtherName -> <<109,97,105,110,46,112,121>>
      [] OTHER ->
           LET i == CHOOSE k \in 1..Len(WideNames) : WideNames[k] = name
           IN  <<96 + i>>

---------------------------------------------------------------------------
(* Strings *)

\* strings.EqualFold on ASCII names: equal after simple case folding
FoldChar(c) == IF c >= 65 /\ c <= 90 THEN c + 32 ELSE c

Fold(s) == [i \in 1..Len(s) |-> FoldChar(s[i])]

EqualFold(s, t) == Fold(s) = Fold(t)

\* strings.Count(s, string(c))
Count(s, c) == Cardinality({i \in 1..Len(s) : s[i] = c})

\* byte-wise s < t, the order of sort.Strings and of os.ReadDir
LexLess(s, t) ==
    \E k \in 0..Len(s) :
        /\ k <= Len(t)
        /\ \A i \in 1..k : s[i] = t[i]
        /\ \/ k = Len(s) /\ k < Len(t)
           \/ k < Len(s) /\ k < Len(t) /\ s[k + 1] < t[k + 1]

RECURSIVE Join(_)
\* filepath.Join / the path string of a sequence of names below the root
Join(path) ==
    IF path = <<>> THEN <<>>
    ELSE IF Len(path) = 1 THEN Chars(path[1])
    ELSE Join(SubSeq(path, 1, Len(path) - 1)) \o <<Sep>> \o Chars(path[Len(path)])

\* filepath.Rel(rootAbs, path): "." for the root itself
Rel(path) == IF path = <<>> THEN <<46>> ELSE Join(path)

\* filepath.Dir(path) for an entry below the root
Dir(path) == SubSeq(path, 1, Len(path) - 1)

\* the absolute path string: rootAbs is a common prefix, left out
PathStr(path) == IF path = <<>> THEN <<>> ELSE <<Sep>> \o Join(path)

---------------------------------------------------------------------------
(* The file system *)

Dirs == DOMAIN files

IsDir(path) == path \in Dirs

SubDirNames(d) ==
    {e[Len(e)] : e \in {x \in Dirs : Len(x) = Len(d) + 1 /\ Dir(x) = d}}

FileNamesIn(d) == {n \in FileNames : files[d][n] # Absent}

RECURSIVE SortNames(_)
\* os.ReadDir: the entries of a directory sorted by file name
SortNames(S) ==
    IF S = {} THEN <<>>
    ELSE LET m == CHOOSE x \in S :
                      \A y \in S \ {x} : LexLess(Chars(x), Chars(y))
         IN  <<m>> \o SortNames(S \ {m})

ReadDir(d) == SortNames(SubDirNames(d) \cup FileNamesIn(d))

\* os.Stat(path) succeeds
Exists(d, name) == files[d][name] # Absent

\* fileHash: the hex SHA-256 digest of the file's bytes, "" (<<>> here) when
\* the file cannot be opened.  Distinct contents have distinct digests; a
\* file that exists is readable.
fileHash(d, name) ==
    IF files[d][name] = Absent THEN <<>> ELSE <<"sha256", files[d][name]>>

---------------------------------------------------------------------------
(* findRequirementsDirs *)

\* BeyondDepth with the limit applied one level early (depth >= maxDepth)
BeyondDepthEarly(path) ==
    /\ maxDepth >= 0
    /\ Rel(path) # <<46>>
    /\ Count(Rel(path), Sep) >= maxDepth

\* The WalkDir callback's depth test: the entry lies beyond the depth limit
BeyondDepth(path) ==
    /\ maxDepth >= 0
    /\ Rel(path) # <<46>>
    /\ Count(Rel(path), Sep) > maxDepth

\* a callback that swallows a directory's traversal error and skips it
WalkFnSwallow(path, isDir, walkErr) ==
    IF walkErr THEN "SkipDir"
    ELSE IF BeyondDepth(path) THEN (IF isDir THEN "SkipDir" ELSE "nil")
    ELSE IF ~isDir /\ EqualFold(Chars(path[Len(path)]), Chars(ReqName))
         THEN "match"
    ELSE "nil"

\* The WalkDir callback: "err" (abort), "SkipDir", "match" (append the
\* entry's directory to matched) or "nil"
WalkFn(path, isDir, walkErr) ==
    IF walkErr THEN "err"
    ELSE IF BeyondDepth(path) THEN (IF isDir THEN "SkipDir" ELSE "nil")
    ELSE IF ~isDir /\ EqualFold(Chars(path[Len(path)]), Chars(ReqName))
         THEN "match"
    ELSE "nil"

RECURSIVE walkDir(_, _)
RECURSIVE walkList(_, _, _)
\* filepath.WalkDir's recursion on one entry; st = [matched, visited, err]
walkDir(path, st) ==
    LET r   == WalkFn(path, IsDir(path), FALSE)
        st1 == [st EXCEPT !.visited = @ \cup {path}]
    IN  IF r = "err" THEN [st1 EXCEPT !.err = TRUE]
        ELSE IF r = "SkipDir" THEN st1
        ELSE IF ~IsDir(path)
             THEN IF r = "match"
                  THEN [st1 EXCEPT !.matched = Append(@, Dir(path))]
                  ELSE st1
        ELSE IF path \in unreadable
             THEN \* ReadDir failed: the callback is called again with the error
                  IF WalkFn(path, TRUE, TRUE) = "err"
                  THEN [st1 EXCEPT !.err = TRUE]
                  ELSE st1
        ELSE walkList(path, ReadDir(path), st1)

walkList(path, names, st) ==
    IF names = <<>> \/ st.err THEN st
    ELSE walkList(path, Tail(names), walkDir(path \o <<Head(names)>>, st))

\* no de-duplication: every match is returned
DedupeNone(matched, seen) == matched

RECURSIVE Dedupe(_, _)
\* the de-duplication loop: first occurrences, in order
Dedupe(matched, seen) ==
    IF matched = <<>> THEN <<>>
    ELSE IF Head(matched) \in seen THEN Dedupe(Tail(matched), seen)
    ELSE <<Head(matched)>> \o Dedupe(Tail(matched), seen \cup {Head(matched)})

\* findRequirementsDirs(root, maxDepth): [out, err, visited]
findRequirementsDirs ==
    IF rootKind # "dir"
    THEN [out |-> <<>>, err |-> TRUE, visited |-> {}]
    ELSE LET st == walkDir(<<>>, [matched |-> <<>>, visited |-> {}, err |-> FALSE])
         IN  IF st.err
             THEN [out |-> <<>>, err |-> TRUE, visited |-> st.visited]
             ELSE [out |-> Dedupe(st.matched, {}), err |-> FALSE,
                   visited |-> st.visited]

---------------------------------------------------------------------------
(* main, up to the worker pool *)

Exit(code) ==
    /\ pc' = "exit"
    /\ exitCode' = code

\* flag.Usage, fmt.Fprintln(os.Stderr, ...), logger.Printf or logger.Fatalf:
\* a message of main.  text is the output of a directory's `pipreqs .` that
\* the message carries; no message of main carries one.
Say(kind) ==
    messages' = messages \cup {[kind |-> kind, text |-> Absent]}

\* flag.Parse and the argument / --version checks
ParseArgs ==
    /\ pc = "parse"
    /\ IF nargs < 1
       THEN IF showVersion THEN Exit(0) /\ UNCHANGED messages
            ELSE Exit(2) /\ Say("usage")
       ELSE IF showVersion THEN Exit(0) /\ UNCHANGED messages
       ELSE pc' = "validate" /\ UNCHANGED <<exitCode, messages>>
    /\ UNCHANGED <<nargs, showVersion, dryRun, maxDepth, requested, concurrency,
                   pipreqsInPath, rootKind, unreadable, files, files0,
                   versionRun, scanned, visited, scanOut, reqDirs, idx, sem,
                   wg, cancelled, wpc, wloc, cmdRuns, cmdWrote, cmdOut, calls,
                   result, updatedCount, errorCount, summary>>

\* "Validation": runCmd("pipreqs", "--version"); logger.Fatalf exits with 1
ValidatePipreqs ==
    /\ pc = "validate"
    /\ versionRun' = TRUE
    /\ IF ~pipreqsInPath
       THEN Exit(1) /\ Say("error: pipreqs not found in PATH")
       ELSE pc' = "scan" /\ Say("pipreqs version") /\ UNCHANGED exitCode
    /\ UNCHANGED <<nargs, showVersion, dryRun, maxDepth, requested, concurrency,
                   pipreqsInPath, rootKind, unreadable, files, files0,
                   scanned, visited, scanOut, reqDirs, idx, sem,
                   wg, cancelled, wpc, wloc, cmdRuns, cmdWrote, cmdOut, calls,
                   result, updatedCount, errorCount, summary>>

\* reqDirs, err := findRequirementsDirs(root, maxDepth); an error exits with 1
Scan ==
    /\ pc = "scan"
    /\ LET r == findRequirementsDirs
       IN  /\ scanned' = TRUE
           /\ visited' = r.visited
           /\ IF r.err
              THEN Exit(1) /\ Say("error: scan") /\ UNCHANGED <<scanOut, reqDirs>>
              ELSE /\ scanOut' = r.out
                   /\ reqDirs' = r.out
                   /\ pc' = "prepare"
                   /\ UNCHANGED <<exitCode, messages>>
    /\ UNCHANGED <<nargs, showVersion, dryRun, maxDepth, requested, concurrency,
                   pipreqsInPath, rootKind, unreadable, files, files0,
                   versionRun, idx, sem,
                   wg, cancelled, wpc, wloc, cmdRuns, cmdWrote, cmdOut, calls,
                   result, updatedCount, errorCount, summary>>

RECURSIVE SortStrings(_)
\* sort.Strings on the directories' path strings
SortStrings(S) ==
    IF S = {} THEN <<>>
    ELSE LET m == CHOOSE x \in S :
                      \A y \in S \ {x} : LexLess(PathStr(x), PathStr(y))
         IN  <<m>> \o SortStrings(S \ {m})

Range(q) == {q[i] : i \in 1..Len(q)}

\* no fallback: an empty scan stays empty
FallbackNone(dirs) == dirs

\* the root fallback of an empty scan
Fallback(dirs) == IF Len(dirs) = 0 THEN << <<>> >> ELSE dirs

\* no sort: the targets stay in the order the scanner produced
Unsorted(q) == q

\* sort.Strings(reqDirs), "for stable output"
SortedDirs(q) == SortStrings(Range(q))

\* the root fallback, then sort.Strings(reqDirs)
Prepare ==
    /\ pc = "prepare"
    /\ reqDirs' = SortedDirs(Fallback(reqDirs))
    /\ pc' = "concurrency"
    /\ Say("discovered directories")
    /\ UNCHANGED <<nargs, showVersion, dryRun, maxDepth, requested, concurrency,
                   pipreqsInPath, rootKind, unreadable, files, files0,
                   exitCode, versionRun, scanned, visited, scanOut, idx, sem,
                   wg, cancelled, wpc, wloc, cmdRuns, cmdWrote, cmdOut, calls,
                   result, updatedCount, errorCount, summary>>

\* no clamp: the requested concurrency is used as it is
ClampNone(c) == c

\* concurrency > 12 is clamped to 12
Clamp(c) == IF c > MaxConcurrency THEN MaxConcurrency ELSE c

\* concurrency < 1 exits with 2; concurrency > 12 is clamped
CheckConcurrency ==
    /\ pc = "concurrency"
    /\ IF concurrency < 1
       THEN Exit(2) /\ Say("invalid --concurrency") /\ UNCHANGED concurrency
       ELSE /\ concurrency' = Clamp(concurrency)
            /\ pc' = "lookpath"
            /\ UNCHANGED <<exitCode, messages>>
    /\ UNCHANGED <<nargs, showVersion, dryRun, maxDepth, requested,
                   pipreqsInPath, rootKind, unreadable, files, files0,
                   versionRun, scanned, visited, scanOut, reqDirs, idx, sem,
                   wg, cancelled, wpc, wloc, cmdRuns, cmdWrote, cmdOut, calls,
                   result, updatedCount, errorCount, summary>>

\* exec.LookPath("pipreqs"), skipped in dry-run; failure exits with 1
LookPath ==
    /\ pc = "lookpath"
    /\ IF ~dryRun /\ ~pipreqsInPath
       THEN Exit(1) /\ Say("pipreqs not found in PATH")
       ELSE pc' = "dispatch" /\ UNCHANGED <<exitCode, messages>>
    /\ UNCHANGED <<nargs, showVersion, dryRun, maxDepth, requested, concurrency,
                   pipreqsInPath, rootKind, unreadable, files, files0,
                   versionRun, scanned, visited, scanOut, reqDirs, idx, sem,
                   wg, cancelled, wpc, wloc, cmdRuns, cmdWrote, cmdOut, calls,
                   result, updatedCount, errorCount, summary>>

---------------------------------------------------------------------------
(* The worker pool *)

\* the environment of the whole run, which no step changes
Env == <<nargs, showVersion, dryRun, maxDepth, requested, concurrency,
         pipreqsInPath, rootKind, unreadable, files0, versionRun, scanned,
         visited, scanOut, reqDirs, messages>>

\* sem <- struct{}{} can proceed: the channel holds fewer than cap(sem) tokens
SemHasRoom == sem < concurrency

\* the goroutine reads the loop variable when it runs, not its own argument
LaunchedDirCaptured == reqDirs[Len(reqDirs)]

\* go func(d string) {...}(dir): the task gets the directory of this iteration
LaunchedDir == reqDirs[idx]

\* one iteration of the dispatch loop: wg.Add(1); sem <- struct{}{}; go func(dir)
Launch ==
    /\ pc = "dispatch"
    /\ idx <= Len(reqDirs)
    /\ SemHasRoom
    /\ wg' = wg + 1
    /\ sem' = sem + 1
    /\ wpc' = [wpc EXCEPT ![LaunchedDir] = "start"]
    /\ idx' = idx + 1
    /\ UNCHANGED <<Env, files, pc, exitCode, cancelled, wloc, cmdRuns,
                   cmdWrote, cmdOut, calls, result, updatedCount, errorCount,
                   summary>>

\* no release: a finished task keeps its token
ReleaseNone == UNCHANGED sem

\* defer func() { <-sem }(): the task gives its token back, however it ends
Release == sem' = sem - 1

\* a finished task is put back among the waiting ones
FinishRequeue(d) == wpc' = [wpc EXCEPT ![d] = "idle"]

\* the goroutine of directory d ends
Finish(d) == wpc' = [wpc EXCEPT ![d] = "done"]

NoErr == "nil"
RenameErr == "rename failed"
CmdErr == "pipreqs failed"

\* the worker's bookkeeping after updateRequirements returned (changed, err),
\* and its deferred <-sem and wg.Done().  The two deferred calls run back to
\* back; main reads wg only in wg.Wait(), after the last launch, so taking
\* them as one step loses no behaviour of sem, the counters or the files.
Return(d, changed, err) ==
    /\ result' = [result EXCEPT ![d] =
                      [returned |-> TRUE, changed |-> changed, err |-> err]]
    /\ errorCount' = IF err # NoErr THEN errorCount + 1 ELSE errorCount
    /\ updatedCount' = IF err = NoErr /\ changed THEN updatedCount + 1
                       ELSE updatedCount
    /\ Release
    /\ wg' = wg - 1
    /\ Finish(d)

\* changed, err := updateRequirements(d, dryRun) is entered
Called(d) == calls' = [calls EXCEPT ![d] = @ + 1]

\* a dry-run return that reports the marker as changed when one is there
DryRunReturnChanged(d) == Return(d, Exists(d, ReqName), NoErr)

\* updateRequirements in dry-run: return false, nil
DryRunReturn(d) == Return(d, FALSE, NoErr)

\* the marker is removed in place of the backup
RemoveMarker(fs, d) == [fs EXCEPT ![d][ReqName] = Absent]

\* os.Remove(backupPath) has removed the old backup
RemoveBackup(fs, d) == [fs EXCEPT ![d][BakName] = Absent]

\* a failed rename that is reported as a change
RenameFailedChanged(d) == Return(d, TRUE, RenameErr)

\* if err := os.Rename(...); err != nil { return false, err }
RenameFailed(d) == Return(d, FALSE, RenameErr)

\* the worker starts: the ctx.Done() test, then updateRequirements up to the
\* removal of the old backup
WorkerStart(d) ==
    /\ wpc[d] = "start"
    /\ IF cancelled
       THEN /\ Release
            /\ wg' = wg - 1
            /\ Finish(d)
            /\ UNCHANGED <<files, wloc, calls, result, updatedCount,
                           errorCount>>
       ELSE IF dryRun
       THEN DryRunReturn(d) /\ Called(d) /\ UNCHANGED <<files, wloc>>
       ELSE IF Exists(d, ReqName)
       THEN /\ Called(d)
            /\ wloc' = [wloc EXCEPT ![d] =
                           [preExists |-> TRUE, preHash |-> fileHash(d, ReqName)]]
            \* _ = os.Remove(backupPath): its error is ignored
            /\ \E removed \in BOOLEAN :
                   files' = IF removed THEN RemoveBackup(files, d) ELSE files
            /\ wpc' = [wpc EXCEPT ![d] = "rename"]
            /\ UNCHANGED <<sem, wg, result, updatedCount, errorCount>>
       ELSE /\ Called(d)
            /\ wloc' = [wloc EXCEPT ![d] =
                           [preExists |-> FALSE, preHash |-> <<>>]]
            /\ wpc' = [wpc EXCEPT ![d] = "cmd"]
            /\ UNCHANGED <<files, sem, wg, result, updatedCount, errorCount>>
    /\ UNCHANGED <<Env, pc, exitCode, idx, cancelled, cmdRuns, cmdWrote,
                   cmdOut, summary>>

\* a rename that does not replace an existing backup
RenamedKeepOld(fs, d) ==
    IF fs[d][BakName] # Absent
    THEN [fs EXCEPT ![d][ReqName] = Absent]
    ELSE [fs EXCEPT ![d][BakName] = fs[d][ReqName], ![d][ReqName] = Absent]

\* a successful os.Rename(reqPath, backupPath): the marker's content is now
\* the backup's (replacing what was there), the marker is gone
Renamed(fs, d) ==
    [fs EXCEPT ![d][BakName] = fs[d][ReqName], ![d][ReqName] = Absent]

\* os.Rename(reqPath, backupPath): replaces the backup, or fails
UpdRename(d) ==
    /\ wpc[d] = "rename"
    /\ \E ok \in BOOLEAN :
          IF ok
          THEN /\ files' = Renamed(files, d)
               /\ wpc' = [wpc EXCEPT ![d] = "cmd"]
               /\ UNCHANGED <<sem, wg, result, updatedCount, errorCount>>
          ELSE RenameFailed(d) /\ UNCHANGED files
    /\ UNCHANGED <<Env, pc, exitCode, idx, cancelled, wloc, cmdRuns, cmdWrote,
                   cmdOut, calls, summary>>

\* the command runs in the directory of the process
CmdDirCwd(d) == <<>>

\* cmd.Dir = workDir: the command runs in the directory it was given
CmdDir(d) == d

\* runCmd("pipreqs", ["."], dir): the command exits zero or non-zero and has
\* written requirements.txt with some content, or not written it.  It writes
\* no other file.  Its combined output is some text; the code reads it only
\* when the command failed, so one text stands for a successful run's output.
UpdRunCmd(d) ==
    /\ wpc[d] = "cmd"
    /\ \E ok \in BOOLEAN, w \in Contents \cup {Absent} :
        \E o \in IF ok THEN {1} ELSE Contents :
          /\ cmdRuns' = [cmdRuns EXCEPT ![d] = @ + 1]
          /\ cmdWrote' = [cmdWrote EXCEPT ![d] = w]
          /\ cmdOut' = [cmdOut EXCEPT ![d] = o]
          /\ files' = IF w # Absent
                      THEN [files EXCEPT ![CmdDir(d)][ReqName] = w]
                      ELSE files
          /\ IF ok
             THEN /\ wpc' = [wpc EXCEPT ![d] = "post"]
                  /\ UNCHANGED <<sem, wg, result, updatedCount, errorCount>>
             ELSE Return(d, FALSE, CmdErr)
    /\ UNCHANGED <<Env, pc, exitCode, idx, cancelled, wloc, calls, summary>>

\* Changed without the postExists tests: any difference of the digests
ChangedAnyDiff(preExists, postExists, preHash, postHash) ==
    preHash # postHash

\* changed := (!preExists && postExists) ||
\*            (preExists && postExists && preHash != postHash)
Changed(preExists, postExists, preHash, postHash) ==
    \/ ~preExists /\ postExists
    \/ preExists /\ postExists /\ preHash # postHash

\* the post-state check of updateRequirements and its return
UpdPost(d) ==
    /\ wpc[d] = "post"
    /\ LET postExists == Exists(d, ReqName)
           postHash   == fileHash(d, ReqName)
       IN  Return(d, Changed(wloc[d].preExists, postExists,
                             wloc[d].preHash, postHash), NoErr)
    /\ UNCHANGED <<Env, files, pc, exitCode, idx, cancelled, wloc, cmdRuns,
                   cmdWrote, cmdOut, calls, summary>>

\* an exit status that reports per-directory failures
SummaryExitCodeOnErrors == IF errorCount > 0 THEN 1 ELSE 0

\* main returns after the summary, whatever the counters say
SummaryExitCode == 0

\* no barrier: main goes on although tasks are still running
WaitDoneEarly == TRUE

\* wg.Wait() returns: every wg.Add(1) has been matched by a wg.Done()
WaitDone == wg = 0

\* wg.Wait() returns; cancel(); the summary line; main returns
WaitAndSummarize ==
    /\ pc = "dispatch"
    /\ idx > Len(reqDirs)
    /\ WaitDone
    /\ cancelled' = TRUE
    /\ summary' = [printed |-> TRUE, processed |-> Len(reqDirs),
                   updated |-> updatedCount, errors |-> errorCount]
    /\ Exit(SummaryExitCode)
    /\ UNCHANGED <<Env, files, idx, sem, wg, wpc, wloc, cmdRuns, cmdWrote,
                   cmdOut, calls, result, updatedCount, errorCount>>

---------------------------------------------------------------------------
(* Initial states *)

\* the files of one directory: requirements.txt, Requirements.TXT, the backup,
\* and an unrelated source file
MkFiles(req, upper, bak) ==
    [n \in FileNames |->
        CASE n = ReqName -> req
          [] n = ReqUpper -> upper
          [] n = BakName -> bak
          [] OTHER -> 1]

RootOnly == { <<>> }
SmallDirs == { <<>>, <<"a">>, <<"b">> }
DeepDirs == { <<>>, <<"a">>, <<"b">>, <<"b", "c">>, <<"b", "c", "d">> }
WideDirs == { <<>> } \cup { <<WideNames[i]>> : i \in 1..MaxWide }

\* a single directory in every marker / backup state
SingleTrees ==
    { [d \in RootOnly |-> MkFiles(r, u, b)] :
        r \in {Absent} \cup Contents, u \in {Absent, 1},
        b \in {Absent} \cup Contents }

\* three directories, each without marker, with one, or with marker and backup
SmallTrees ==
    [SmallDirs -> {MkFiles(Absent, Absent, Absent), MkFiles(1, Absent, Absent),
                   MkFiles(1, Absent, MaxContent)}]

\* a nest of directories, each with any of the two spellings of the marker
DeepTrees ==
    [DeepDirs -> {MkFiles(r, u, Absent) : r \in {Absent, 1}, u \in {Absent, 1}}]

\* many sibling directories, each with a marker
WideTree ==
    [d \in WideDirs |-> IF d = <<>> THEN MkFiles(Absent, Absent, Absent)
                        ELSE MkFiles(1, Absent, Absent)]

\* the state at process start, for a given environment and command line
Start(tree, n, v, dry, depth, conc, inPath, kind, unread) ==
    /\ files = tree
    /\ files0 = tree
    /\ nargs = n
    /\ showVersion = v
    /\ dryRun = dry
    /\ maxDepth = depth
    /\ requested = conc
    /\ concurrency = conc
    /\ pipreqsInPath = inPath
    /\ rootKind = kind
    /\ unreadable = unread
    /\ exitCode = NoExit
    /\ visited = {}
    /\ scanOut = <<>>
    /\ reqDirs = <<>>
    /\ idx = 1
    /\ sem = 0
    /\ wg = 0
    /\ cancelled = FALSE
    /\ wpc = [d \in DOMAIN tree |-> "idle"]
    /\ wloc = [d \in DOMAIN tree |-> [preExists |-> FALSE, preHash |-> <<>>]]
    /\ cmdRuns = [d \in DOMAIN tree |-> 0]
    /\ cmdWrote = [d \in DOMAIN tree |-> Absent]
    /\ cmdOut = [d \in DOMAIN tree |-> Absent]
    /\ calls = [d \in DOMAIN tree |-> 0]
    /\ messages = {}
    /\ result = [d \in DOMAIN tree |->
                    [returned |-> FALSE, changed |-> FALSE, err |-> NoErr]]
    /\ updatedCount = 0
    /\ errorCount = 0
    /\ summary = [printed |-> FALSE, processed |-> 0, updated |-> 0,
                  errors |-> 0]

AtMain ==
    /\ pc = "parse"
    /\ versionRun = FALSE
    /\ scanned = FALSE

\* command lines without a root argument, or with --version
InitUsage ==
    /\ AtMain
    /\ \E tree \in {WideTree}, n \in {0, 1}, v \in BOOLEAN, dry \in BOOLEAN :
          /\ n = 0 \/ v
          /\ Start(tree, n, v, dry, 2, MaxConcurrency, TRUE, "dir", {})

\* one directory: every file state, root kind and mode
InitSingle ==
    /\ AtMain
    /\ \E tree \in SingleTrees, dry \in BOOLEAN, conc \in {0, 1, MaxConcArg},
          inPath \in BOOLEAN, kind \in {"dir", "file", "missing"},
          unread \in {{}, { <<>> }} :
          Start(tree, 1, FALSE, dry, 2, conc, inPath, kind, unread)

\* three directories: every concurrency and mode
InitSmall ==
    /\ AtMain
    /\ \E tree \in SmallTrees, dry \in BOOLEAN, depth \in {0, 1},
          conc \in {0, 1, 2, MaxConcArg}, inPath \in BOOLEAN,
          unread \in {{}, { <<"a">> }} :
          Start(tree, 1, FALSE, dry, depth, conc, inPath, "dir", unread)

\* more directories than the concurrency cap, in dry-run
InitWide ==
    /\ AtMain
    /\ Start(WideTree, 1, FALSE, TRUE, 2, MaxConcArg, TRUE, "dir", {})

Init == InitUsage \/ InitSingle \/ InitSmall \/ InitWide

\* main is about to call findRequirementsDirs on a nest of directories
InitScan ==
    /\ pc = "scan"
    /\ versionRun = TRUE
    /\ scanned = FALSE
    /\ \E tree \in DeepTrees, depth \in -1..MaxDepthArg,
          unread \in {{}} \cup {{d} : d \in DeepDirs} :
          Start(tree, 1, FALSE, TRUE, depth, MaxConcurrency, TRUE, "dir", unread)

---------------------------------------------------------------------------
(* Specifications *)

Next ==
    \/ ParseArgs
    \/ ValidatePipreqs
    \/ Scan
    \/ Prepare
    \/ CheckConcurrency
    \/ LookPath
    \/ Launch
    \/ \E d \in Dirs : WorkerStart(d)
    \/ \E d \in Dirs : UpdRename(d)
    \/ \E d \in Dirs : UpdRunCmd(d)
    \/ \E d \in Dirs : UpdPost(d)
    \/ WaitAndSummarize

\* the whole program
Spec == Init /\ [][Next]_vars

\* findRequirementsDirs alone, over every tree of the nest
SpecScan == InitScan /\ [][Scan]_vars

---------------------------------------------------------------------------
(* Vocabulary of the properties *)

Min(a, b) == IF a < b THEN a ELSE b

\* the directory directly holds a file whose name matches requirements.txt
\* case-insensitively
HasMarker(d) ==
    \E n \in FileNames :
        files0[d][n] # Absent /\ EqualFold(Chars(n), Chars(ReqName))

\* path-separator count of a directory's path relative to the root
DirSepCount(d) == IF d = <<>> THEN 0 ELSE Count(Rel(d), Sep)

\* path-separator count of the relative path of a marker file in d
MarkerSepCount(d) == Count(Rel(d \o <<ReqName>>), Sep)

\* entry e lies inside directory d
Inside(e, d) == Len(e) > Len(d) /\ SubSeq(e, 1, Len(d)) = d

\* findRequirementsDirs has returned without error
ScanOK == scanned /\ pc # "exit"

\* the command line asks for a run: a root argument and no --version
RunAsked == nargs >= 1 /\ ~showVersion

\* the worker of d has been admitted and has not completed
Active(d) == wpc[d] \notin {"idle", "done"}

NumActive == Cardinality({d \in Dirs : Active(d)})

\* updateRequirements(d) has returned in a live run
LiveReturned(d) == ~dryRun /\ result[d].returned

Failed(d) == result[d].returned /\ result[d].err # NoErr

---------------------------------------------------------------------------
(* C1: findRequirementsDirs and the depth limit *)

\* C1 as stated: with max-depth D >= 0 the scanner returns exactly the
\* directories that directly contain a marker file and whose own relative
\* path has at most D separators (the root allowed), and the walk visits no
\* entry inside a directory whose relative path has more than D separators.
C1_AsStated ==
    (ScanOK /\ maxDepth >= 0) =>
        /\ Range(scanOut) =
               {d \in Dirs : HasMarker(d) /\ DirSepCount(d) <= maxDepth}
        /\ \A e \in visited : \A d \in Dirs :
               DirSepCount(d) > maxDepth => ~Inside(e, d)

\* C1 amended: with max-depth D >= 0 the scanner returns exactly the
\* directories that directly contain a marker file whose relative path has
\* at most D separators (the root, and the directories at most D levels
\* below it); nothing deeper is returned, and the walk visits no entry inside
\* a directory whose own relative path has more than D separators.
C1_DepthLimit ==
    (ScanOK /\ maxDepth >= 0) =>
        /\ Range(scanOut) =
               {d \in Dirs : HasMarker(d) /\ MarkerSepCount(d) <= maxDepth}
        /\ \A d \in Range(scanOut) : Len(d) <= maxDepth
        /\ \A e \in visited : \A d \in Dirs :
               DirSepCount(d) > maxDepth => ~Inside(e, d)

\* scenario 1: a/requirements.txt and b/c/requirements.txt, max-depth 1:
\* only a is discovered, and nothing below b/c/d was visited
C1_Witness ==
    /\ ScanOK
    /\ maxDepth = 1
    /\ HasMarker(<<"a">>)
    /\ HasMarker(<<"b", "c">>)
    /\ HasMarker(<<"b", "c", "d">>)
    /\ scanOut = << <<"a">> >>
    /\ <<"b", "c", "d">> \in visited
    /\ <<"b", "c", "d", OtherName>> \notin visited

---------------------------------------------------------------------------
(* C2: the changed flag of a live updateRequirements *)

---------------------------------------------------------------------------
(* C3: dry-run *)

\* C3: in a dry-run no file is ever created, deleted, renamed or modified,
\* `pipreqs .` is never run, every directory's outcome is (unchanged, no
\* failure), and the summary reports updated = 0 and errors = 0.
C3_DryRunFrame ==
    dryRun =>
        /\ files = files0
        /\ \A d \in Dirs :
              /\ cmdRuns[d] = 0
              /\ result[d].returned =>
                     ~result[d].changed /\ result[d].err = NoErr
        /\ updatedCount = 0 /\ errorCount = 0
        /\ summary.printed => summary.updated = 0 /\ summary.errors = 0

\* a dry-run over several directories, one with marker and backup, has
\* printed its summary
C3_Witness ==
    /\ dryRun
    /\ summary.printed
    /\ summary.processed >= 2
    /\ \E d \in Dirs :
          /\ result[d].returned
          /\ files0[d][ReqName] # Absent
          /\ files0[d][BakName] # Absent

---------------------------------------------------------------------------
(* C4: the availability check of pipreqs *)

\* nothing but pipreqs' absence can stop the run
ValidRun ==
    /\ RunAsked
    /\ rootKind = "dir"
    /\ unreadable = {}
    /\ requested >= 1

\* C4 as stated: a dry-run on a valid root with pipreqs absent from PATH
\* still scans, reports and exits with code 0, while a live run with pipreqs
\* absent exits with code 1 before any directory is processed.
C4_AsStated ==
    (ValidRun /\ ~pipreqsInPath /\ pc = "exit") =>
        IF dryRun
        THEN exitCode = 0 /\ scanned /\ summary.printed
        ELSE exitCode = 1 /\ \A d \in Dirs : wpc[d] = "idle"

---------------------------------------------------------------------------
(* C5: the admission gate *)

\* C5: for every requested concurrency c >= 1, at every moment the number of
\* tasks admitted and not yet completed is at most min(c, 12), and so is the
\* number of directories in which pipreqs is running.
C5_BoundedActive ==
    requested >= 1 =>
        /\ NumActive <= Min(requested, MaxConcurrency)
        /\ NumActive = sem

\* 13 requested, 12 tasks active and a directory still waiting for a token
C5_Witness ==
    /\ requested > MaxConcurrency
    /\ NumActive = MaxConcurrency
    /\ pc = "dispatch"
    /\ idx <= Len(reqDirs)

---------------------------------------------------------------------------
(* C6: the backup *)

\* C6: after a live updateRequirements call on a directory whose marker
\* existed and whose rename succeeded, requirements.txt.bak holds the
\* marker's original content (whatever backup was there before is gone),
\* whether pipreqs exited zero or non-zero; nothing is rolled back:
\* requirements.txt is what the command left there, absent if it wrote nothing.
C6_BackupHoldsOriginal ==
    \A d \in Dirs :
        (LiveReturned(d) /\ files0[d][ReqName] # Absent
                         /\ result[d].err # RenameErr) =>
            /\ files[d][BakName] = files0[d][ReqName]
            /\ files[d][ReqName] = cmdWrote[d]
            /\ cmdRuns[d] = 1

\* pipreqs exited non-zero without writing: an older, different backup was
\* replaced by the original, and requirements.txt is gone
C6_Witness ==
    \E d \in Dirs :
        /\ LiveReturned(d)
        /\ result[d].err = CmdErr
        /\ files0[d][ReqName] # Absent
        /\ files0[d][BakName] # Absent
        /\ files0[d][BakName] # files0[d][ReqName]
        /\ files[d][BakName] = files0[d][ReqName]
        /\ files[d][ReqName] = Absent

---------------------------------------------------------------------------
(* C7: per-directory failures *)

---------------------------------------------------------------------------
(* C8: an invalid concurrency *)

\* C8 as stated: with a concurrency below 1 the process exits with code 2
\* and performs no work: no directory scan, no external command invocation
\* and no file mutation happen before the exit.
C8_AsStated ==
    (RunAsked /\ requested < 1) =>
        /\ ~scanned
        /\ ~versionRun
        /\ files = files0
        /\ pc = "exit" => exitCode = 2

---------------------------------------------------------------------------
(* C9: fatal setup and scan errors *)

\* the walk reaches a directory whose listing fails
TraversalError ==
    /\ rootKind = "dir"
    /\ \E d \in unreadable :
           \/ maxDepth < 0
           \/ d = <<>>
           \/ DirSepCount(d) <= maxDepth

\* a setup or scan error
FatalSetup ==
    \/ rootKind # "dir"
    \/ TraversalError
    \/ ~dryRun /\ ~pipreqsInPath

\* C9: if the root does not exist or is not a directory, or the walk meets a
\* traversal error, or (live mode) pipreqs is missing, the process exits with
\* code 1 and no directory is processed: no worker starts, no backup is made,
\* `pipreqs .` is never run and no summary is printed.
C9_FatalSetup ==
    (RunAsked /\ FatalSetup) =>
        /\ pc = "exit" => exitCode = 1
        /\ pc \in {"parse", "validate", "scan", "exit"}
        /\ \A d \in Dirs : wpc[d] = "idle" /\ cmdRuns[d] = 0
        /\ files = files0
        /\ ~summary.printed

\* a live run with pipreqs on PATH stopped with exit code 1 on an unreadable
\* sub-directory although other directories hold markers
C9_Witness ==
    /\ pc = "exit"
    /\ exitCode = 1
    /\ scanned
    /\ ~dryRun
    /\ requested >= 1
    /\ unreadable = { <<"a">> }
    /\ HasMarker(<<"b">>)

---------------------------------------------------------------------------
(* C10: the root fallback *)

\* no marker file lies within the depth limit
NoMarkerWithinDepth ==
    \A d \in Dirs : HasMarker(d) => (maxDepth >= 0 /\ Len(d) > maxDepth)

\* C10: when the scan of a valid root finds no requirements.txt within the
\* depth limit, the target list is exactly the root, the root is the only
\* directory processed, at most once, and the summary reports processed = 1.
C10_RootFallback ==
    (NoMarkerWithinDepth /\ (pc \in {"concurrency", "lookpath", "dispatch"}
                             \/ summary.printed)) =>
        /\ scanOut = <<>>
        /\ reqDirs = << <<>> >>
        /\ \A d \in Dirs \ { <<>> } : wpc[d] = "idle" /\ cmdRuns[d] = 0
        /\ cmdRuns[<<>>] <= 1
        /\ summary.printed => summary.processed = 1

\* a live run on a tree whose only markers lie below the depth limit ran
\* pipreqs once, in the root, and reported processed = 1
C10_Witness ==
    /\ summary.printed
    /\ summary.processed = 1
    /\ scanOut = <<>>
    /\ \E d \in Dirs : HasMarker(d)
    /\ ~dryRun
    /\ cmdRuns[<<>>] = 1
    /\ result[<<>>].returned

---------------------------------------------------------------------------
(* C11: the dispatch order *)

\* the targets of the worker loop
Targets == Range(reqDirs)

\* the position of a directory in the scanner's output
ScanPos(d) == CHOOSE i \in 1..Len(scanOut) : scanOut[i] = d

\* C11: the worker loop walks the targets in lexicographic order of their path
\* strings: whenever the task of a directory has been launched, the task of
\* every target with a lexicographically smaller path has been launched
\* already, whatever order the scanner produced and however the workers
\* interleave.
C11_SortedDispatch ==
    pc \in {"dispatch", "exit"} =>
        /\ \A i, j \in 1..Len(reqDirs) :
              i < j => LexLess(PathStr(reqDirs[i]), PathStr(reqDirs[j]))
        /\ \A d, e \in Targets :
              (wpc[e] # "idle" /\ LexLess(PathStr(d), PathStr(e)))
                  => wpc[d] # "idle"

\* the scanner reported a directory before a lexicographically smaller one,
\* and the smaller one has been launched while the other still waits
C11_Witness ==
    /\ pc = "dispatch"
    /\ \E d, e \in Targets :
          /\ d \in Range(scanOut) /\ e \in Range(scanOut)
          /\ ScanPos(e) < ScanPos(d)
          /\ LexLess(PathStr(d), PathStr(e))
          /\ wpc[d] # "idle"
          /\ wpc[e] = "idle"

---------------------------------------------------------------------------
(* C12: the summary and its totals *)

\* the targets whose processing returned a failure
FailedTargets == {d \in Targets : Failed(d)}

\* the targets whose processing succeeded with changed = true
UpdatedTargets ==
    {d \in Targets : result[d].returned /\ result[d].err = NoErr
                       /\ result[d].changed}

\* C12: the summary is printed only after every task has completed, and under
\* every interleaving of the workers its totals are exact: processed is the
\* number of targets, errors the number of targets whose processing returned a
\* failure, updated the number whose processing succeeded with changed = true;
\* hence updated + errors <= processed, and no outcome is lost or counted
\* twice.
C12_ExactTotals ==
    /\ errorCount = Cardinality(FailedTargets)
    /\ updatedCount = Cardinality(UpdatedTargets)
    /\ summary.printed =>
          /\ \A d \in Targets : wpc[d] = "done" /\ result[d].returned
          /\ summary.processed = Cardinality(Targets)
          /\ summary.errors = Cardinality(FailedTargets)
          /\ summary.updated = Cardinality(UpdatedTargets)
          /\ summary.updated + summary.errors <= summary.processed

\* a summary over three targets run by two or more workers, with a failure,
\* an update and an unchanged directory among them
C12_Witness ==
    /\ summary.printed
    /\ concurrency >= 2
    /\ summary.processed = 3
    /\ summary.errors = 1
    /\ summary.updated = 1

---------------------------------------------------------------------------
(* C13: exactly once *)

\* C13: updateRequirements is called at most once for a directory and never
\* for a directory that is no target; a task that has finished has called it,
\* so that at the summary it has been called exactly once for every target;
\* and cancel() comes only after wg.Wait(), so no task that has not started
\* its work yet sees the context cancelled.
C13_ExactlyOnce ==
    /\ \A d \in Dirs : calls[d] <= 1 /\ cmdRuns[d] <= calls[d]
    /\ \A d \in Dirs \ Targets : calls[d] = 0
    /\ \A d \in Dirs : wpc[d] = "done" => calls[d] = 1 /\ result[d].returned
    /\ \A d \in Dirs : wpc[d] = "start" => ~cancelled
    /\ summary.printed => \A d \in Targets : calls[d] = 1

\* the context is cancelled after a run in which one target failed: the
\* failed target was not retried and the others were processed once
C13_Witness ==
    /\ cancelled
    /\ Cardinality(Targets) >= 3
    /\ \E d \in Targets : Failed(d) /\ calls[d] = 1
    /\ \E d \in Targets : result[d].returned /\ ~Failed(d) /\ calls[d] = 1

---------------------------------------------------------------------------
(* C15: the states of a directory *)

\* the dispatch loop has not reached the directory yet
Waiting(d) == \A i \in 1..(idx - 1) : reqDirs[i] # d

\* the task of the directory has ended
Done(d) == wpc[d] = "done"

\* Waiting = 0, Active = 1, Done = 2
Rank(d) == IF Done(d) THEN 2 ELSE IF Active(d) THEN 1 ELSE 0

\* each directory is in exactly one of the three states
ExactlyOneState ==
    \A d \in Dirs :
        /\ Waiting(d) \/ Active(d) \/ Done(d)
        /\ ~(Waiting(d) /\ Active(d))
        /\ ~(Waiting(d) /\ Done(d))
        /\ ~(Active(d) /\ Done(d))

\* a step leaves a directory in its state or moves it to the next one
OneStateForward ==
    \A d \in Dirs : Rank(d)' = Rank(d) \/ Rank(d)' = Rank(d) + 1

\* C15: at every moment each directory is in exactly one of the states
\* Waiting, Active and Done, and every step leaves it where it is or moves it
\* from Waiting to Active or from Active to Done: no directory goes back and
\* none becomes Done without having been Active.
C15_Lifecycle == []ExactlyOneState /\ [][OneStateForward]_vars

\* one target is Done, one Active and one still Waiting
C15_Witness ==
    \E d, e, f \in Targets : Done(d) /\ Active(e) /\ Waiting(f)

---------------------------------------------------------------------------
(* C14: termination *)

\* Every external command terminates and the Go scheduler runs every runnable
\* goroutine: a step of the worker loop, of a worker or of the barrier that
\* stays possible is taken eventually.
SpecLive ==
    /\ Init
    /\ [][Next]_vars
    /\ WF_vars(Launch)
    /\ WF_vars(\E d \in Dirs : WorkerStart(d))
    /\ WF_vars(\E d \in Dirs : UpdRename(d))
    /\ WF_vars(\E d \in Dirs : UpdRunCmd(d))
    /\ WF_vars(\E d \in Dirs : UpdPost(d))
    /\ WF_vars(WaitAndSummarize)

\* main has entered the worker loop
Dispatching == pc = "dispatch"

\* the summary is printed and main has returned, all tokens given back
Finished ==
    /\ pc = "exit"
    /\ summary.printed
    /\ sem = 0
    /\ wg = 0
    /\ \A d \in Targets : Done(d)

\* C14: provided every external command terminates, a run that has entered
\* the worker loop, with any number of targets and a concurrency in 1..12,
\* does not get stuck at sem or at wg.Wait(): every task gives its token back
\* when it ends, also after a failure, every target is launched and ends, and
\* the run prints the summary and exits.
C14_Terminates == Dispatching ~> Finished

\* the run of three targets with one worker has finished although a
\* directory failed
C14_Witness ==
    /\ Finished
    /\ concurrency = 1
    /\ Cardinality(Targets) >= 3
    /\ \E d \in Targets : Failed(d)

---------------------------------------------------------------------------
(* C16: the files a task touches *)

\* the directories whose files a step changes
Touched == {d \in Dirs : files'[d] # files[d]}

\* a step changes the files of at most one directory, the one whose task takes
\* the step, and there only requirements.txt and requirements.txt.bak
OwnFilesOnly ==
    /\ DOMAIN files' = DOMAIN files
    /\ Cardinality(Touched) <= 1
    /\ \A d \in Touched :
          /\ Active(d)
          /\ wpc'[d] # wpc[d]
          /\ \A n \in FileNames \ {ReqName, BakName} :
                files'[d][n] = files[d][n]

\* the backup of a directory that had no requirements.txt is as it was
NoMarkerKeepsBackup ==
    \A d \in Dirs :
        files0[d][ReqName] = Absent => files[d][BakName] = files0[d][BakName]

\* C16: the task of a directory touches only that directory's
\* requirements.txt and requirements.txt.bak: under every interleaving each
\* step that changes files is a step of the task of the one directory it
\* changes, and leaves every other file as it is; and in a directory that had
\* no requirements.txt before the run an existing requirements.txt.bak is
\* neither deleted nor overwritten.
C16_OwnFilesOnly == [][OwnFilesOnly]_vars /\ []NoMarkerKeepsBackup

\* pipreqs has written requirements.txt in a directory that had a backup but
\* no requirements.txt, and the backup is as it was
C16_Witness ==
    \E d \in Dirs :
        /\ files0[d][ReqName] = Absent
        /\ files0[d][BakName] # Absent
        /\ cmdRuns[d] = 1
        /\ files[d][ReqName] # Absent
        /\ files[d][BakName] = files0[d][BakName]

---------------------------------------------------------------------------
(* C17: the output of a failed command *)

\* the error updateRequirements returned for d carries the command's output:
\* fmt.Errorf("pipreqs failed: %w\n%s", err, string(out))
CarriesOutput(d) == result[d].returned /\ result[d].err = CmdErr

\* what the run still holds of the failure of d once its task has ended: the
\* error was a local variable of the goroutine, which only counted it, so all
\* that is left is what main wrote
OutputAvailable(d) == \E m \in messages : m.text = cmdOut[d]

\* C17 as stated: after the workers have finished, the output of every failed
\* command is still available to the run.
C17_AsStated ==
    \A d \in Dirs :
        (summary.printed /\ CarriesOutput(d)) => OutputAvailable(d)

---------------------------------------------------------------------------
(* C18: no duplicates in the scan result *)

\* C18: the list findRequirementsDirs returns holds no directory twice, also
\* when a directory holds both requirements.txt and Requirements.TXT, each of
\* which matches the marker name.
C18_NoDuplicates ==
    ScanOK =>
        \A i, j \in 1..Len(scanOut) : scanOut[i] = scanOut[j] => i = j

\* the scan returned two directories, one of which holds both spellings
C18_Witness ==
    /\ ScanOK
    /\ Len(scanOut) >= 2
    /\ \E i \in 1..Len(scanOut) :
          /\ files[scanOut[i]][ReqName] # Absent
          /\ files[scanOut[i]][ReqUpper] # Absent

---------------------------------------------------------------------------
(* C19: the original content survives *)

\* C19: in every state of a live run, for a directory whose requirements.txt
\* existed before the run, the original content is the content of
\* requirements.txt or of requirements.txt.bak, given that the command writes
\* only requirements.txt.
C19_OriginalKept ==
    ~dryRun =>
        \A d \in Dirs :
            files0[d][ReqName] # Absent =>
                \/ files[d][ReqName] = files0[d][ReqName]
                \/ files[d][BakName] = files0[d][ReqName]

\* the command has written other content to requirements.txt of a directory
\* that had an older backup: the original is in the backup, which replaced
\* the older one
C19_Witness ==
    /\ ~dryRun
    /\ \E d \in Dirs :
          /\ files0[d][ReqName] # Absent
          /\ files0[d][BakName] \notin {Absent, files0[d][ReqName]}
          /\ cmdRuns[d] = 1
          /\ files[d][ReqName] \notin {Absent, files0[d][ReqName]}
          /\ files[d][BakName] = files0[d][ReqName]

---------------------------------------------------------------------------
(* C20: a failed rename *)

\* C20: when os.Rename fails, updateRequirements returns the failure with
\* changed = false and has not run the command; requirements.txt has its
\* original content, the backup is as before or has been removed, and the
\* other files of the directory are as before.
C20_RenameFailure ==
    \A d \in Dirs :
        (result[d].returned /\ result[d].err = RenameErr) =>
            /\ ~result[d].changed
            /\ cmdRuns[d] = 0
            /\ files0[d][ReqName] # Absent
            /\ files[d][ReqName] = files0[d][ReqName]
            /\ files[d][BakName] \in {files0[d][BakName], Absent}
            /\ \A n \in FileNames \ {ReqName, BakName} :
                  files[d][n] = files0[d][n]

\* a rename failed after the older backup had been removed, while another
\* directory was processed to the end
C20_Witness ==
    \E d, e \in Dirs :
        /\ result[d].returned /\ result[d].err = RenameErr
        /\ files0[d][BakName] # Absent
        /\ files[d][BakName] = Absent
        /\ result[e].returned /\ result[e].err = NoErr /\ cmdRuns[e] = 1

---------------------------------------------------------------------------
(* C21: the spelling of the marker *)

\* the files of d the scanner's strings.EqualFold test matched
MatchedNames(d) ==
    {n \in FileNames :
        files0[d][n] # Absent /\ EqualFold(Chars(n), Chars(ReqName))}

\* a file the scanner matched has been moved to requirements.txt.bak: the
\* backup has its content, and it is gone under a name the command does not
\* write
MovedToBackup(d, n) ==
    /\ files[d][BakName] = files0[d][n]
    /\ n # ReqName => files[d][n] = Absent

\* C21 as stated: in a live run, in every directory the scanner reported, a
\* marker file it matched has been moved to requirements.txt.bak by the time
\* the command has been invoked there, however the file name is spelled.
C21_AsStated ==
    ~dryRun =>
        \A d \in Range(scanOut) :
            cmdRuns[d] >= 1 => \E n \in MatchedNames(d) : MovedToBackup(d, n)

====
